---- MODULE Spec2Model ----
(***************************************************************************)
(* Model of django_orm_views/sync.py: the layered topological sort of the  *)
(* registered views (_topological_sort_views) and the rebuild of every     *)
(* registered database (sync_views).                                       *)
(*                                                                         *)
(* A view is identified by its class, modelled as a positive integer; 0 is *)
(* the identity of a view class that is registered nowhere.                *)
(***************************************************************************)
EXTENDS Integers, Sequences, FiniteSets, TLC

VARIABLES
    registry,            \* registry.items(): sequence of [database, views]
    view_dependencies,   \* view class -> the classes it declares as dependencies
    hidden,              \* view class -> view.hidden
    grantee,             \* grant_select_permissions_to_user (NoneValue when not given)
    \* ---- one call of _topological_sort_views ----
    view_to_deps,        \* the working map of the generator
    batches,             \* the sets the generator has yielded so far
    flat,                \* the list that list(chain.from_iterable(...)) is building
    passes,              \* number of times the body of `while True` was entered
    outcome,             \* "running" | "returned" | "raised"
    residual,            \* the map carried by CyclicDependencyError
    \* ---- one call of sync_views ----
    pc,                  \* position of sync_views
    idx,                 \* index into registry.items() of the database being rebuilt
    views_to_generate,   \* the resolved order of the current database
    i,                   \* index of the statement loops over views_to_generate
    committed,           \* database -> namespace as seen outside any transaction
    work,                \* namespace as seen inside the open atomic block
    in_atomic,           \* an atomic block is open (on the default connection)
    begun,               \* databases for which an atomic block was entered
    executed,            \* statements executed successfully in this run, in order
    logged,              \* per-database success reports [database, count]
    error,               \* "none" | "CyclicDependencyError" | "ExecutionError"
    return_value         \* what sync_views returned

inputVars   == <<registry, view_dependencies, hidden, grantee>>
resolveVars == <<view_to_deps, batches, flat, passes, outcome, residual>>
syncVars    == <<pc, idx, views_to_generate, i, committed, work, in_atomic,
                 begun, executed, logged, error, return_value>>
vars        == <<registry, view_dependencies, hidden, grantee,
                 view_to_deps, batches, flat, passes, outcome, residual,
                 pc, idx, views_to_generate, i, committed, work, in_atomic,
                 begun, executed, logged, error, return_value>>

----------------------------------------------------------------------------
(* Bounds *)

\* largest list of views handed to one call of _topological_sort_views
NumViews == 4
\* largest number of declared dependencies in such a list
MaxEdges == 3
\* largest number of views registered over all databases for sync_views
RegViews == 3
\* largest number of declared dependencies over all registered views
RegEdges == 2

----------------------------------------------------------------------------
(* Helpers *)

NoneValue == <<>>

RECURSIVE SubsetsUpTo(_, _)
SubsetsUpTo(S, k) ==
    IF k = 0 \/ S = {} THEN {{}}
    ELSE LET x == CHOOSE y \in S : TRUE
             rest == S \ {x}
         IN  SubsetsUpTo(rest, k) \cup {T \cup {x} : T \in SubsetsUpTo(rest, k - 1)}

\* every order in which the elements of S can be listed
RECURSIVE Perms(_)
Perms(S) ==
    IF S = {} THEN {<<>>}
    ELSE UNION {{<<x>> \o p : p \in Perms(S \ {x})} : x \in S}

Range(s) == {s[k] : k \in 1..Len(s)}

DepsFromEdges(n, E) == [v \in 1..n |-> {e[2] : e \in {d \in E : d[1] = v}}]

----------------------------------------------------------------------------
(* _topological_sort_views *)

\* variant: dependencies outside the list are dropped from the working map
InitialViewToDepsInList(views) == [v \in views |-> view_dependencies[v] \cap views]

\* view_to_deps = {view.__class__: set(view.view_dependencies) for view in views}
InitialViewToDeps(views) == [v \in views |-> view_dependencies[v]]

\* variant: a dependency of a view on itself counts as satisfied
OrderedSelfSatisfied(m) == {item \in DOMAIN m : m[item] \subseteq {item}}

\* variant: one ready item is taken per iteration instead of all of them
OrderedOneAtATime(m) ==
    LET ready == {item \in DOMAIN m : m[item] = {}}
    IN  IF ready = {} THEN {} ELSE {CHOOSE item \in ready : TRUE}

\* ordered = set(item for item, dep in view_to_deps.items() if not dep)
Ordered(m) == {item \in DOMAIN m : m[item] = {}}

\* variant: the emitted items are dropped but not subtracted from the others
RemainingKeepsDeps(m, ordered) == [item \in (DOMAIN m) \ ordered |-> m[item]]

\* variant: the emitted items are subtracted but stay in the map
RemainingKeepsItems(m, ordered) == [item \in DOMAIN m |-> m[item] \ ordered]

\* view_to_deps = {item: (dep - ordered) for item, dep in ... if item not in ordered}
Remaining(m, ordered) == [item \in (DOMAIN m) \ ordered |-> m[item] \ ordered]

\* variant: each yielded set is put in front of the list
ExtendInFront(list, order) == order \o list

\* list(itertools.chain.from_iterable(...)): the yielded set is appended in the
\* iteration order of a Python set, which is any order of its elements
Extend(list, order) == list \o order


\* variant: the working map shares its sets with the views, and the emitted
\* items are subtracted from them in place
IterateYieldInPlace ==
    /\ outcome = "running"
    /\ Ordered(view_to_deps) # {}
    /\ LET ordered == Ordered(view_to_deps)
       IN  /\ \E order \in Perms(ordered) : flat' = Extend(flat, order)
           /\ batches' = Append(batches, ordered)
           /\ view_to_deps' = Remaining(view_to_deps, ordered)
           /\ view_dependencies' =
                  [v \in DOMAIN view_dependencies |-> view_dependencies[v] \ ordered]
    /\ passes' = passes + 1
    /\ UNCHANGED <<outcome, residual>>
    /\ UNCHANGED <<registry, hidden, grantee>>
    /\ UNCHANGED syncVars

\* while True: ... yield set(view_cls_to_view[view] for view in ordered)
IterateYield ==
    /\ outcome = "running"
    /\ Ordered(view_to_deps) # {}
    /\ LET ordered == Ordered(view_to_deps)
       IN  /\ \E order \in Perms(ordered) : flat' = Extend(flat, order)
           /\ batches' = Append(batches, ordered)
           /\ view_to_deps' = Remaining(view_to_deps, ordered)
    /\ passes' = passes + 1
    /\ UNCHANGED <<outcome, residual>>
    /\ UNCHANGED inputVars
    /\ UNCHANGED syncVars

\* if not ordered: break, then `if view_to_deps:` is false: the generator ends
\* and list(...) returns the flattened list
BreakReturn ==
    /\ outcome = "running"
    /\ Ordered(view_to_deps) = {}
    /\ DOMAIN view_to_deps = {}
    /\ passes' = passes + 1
    /\ outcome' = "returned"
    /\ UNCHANGED <<view_to_deps, batches, flat, residual>>
    /\ UNCHANGED inputVars
    /\ UNCHANGED syncVars

\* if not ordered: break, then raise CyclicDependencyError(... {view_to_deps});
\* the list under construction is lost with the exception
BreakRaise ==
    /\ outcome = "running"
    /\ Ordered(view_to_deps) = {}
    /\ DOMAIN view_to_deps # {}
    /\ passes' = passes + 1
    /\ outcome' = "raised"
    /\ residual' = view_to_deps
    /\ flat' = <<>>
    /\ UNCHANGED <<view_to_deps, batches>>
    /\ UNCHANGED inputVars
    /\ UNCHANGED syncVars

----------------------------------------------------------------------------
(* The sort as one function, for its callers *)

RECURSIVE SortBatches(_)
SortBatches(m) ==
    IF Ordered(m) = {} THEN <<>>
    ELSE <<Ordered(m)>> \o SortBatches(Remaining(m, Ordered(m)))

RECURSIVE SortResidual(_)
SortResidual(m) ==
    IF Ordered(m) = {} THEN m
    ELSE SortResidual(Remaining(m, Ordered(m)))

RECURSIVE Flattenings(_)
Flattenings(bs) ==
    IF bs = <<>> THEN {<<>>}
    ELSE {Extend(order, rest) : order \in Perms(Head(bs)), rest \in Flattenings(Tail(bs))}

\* raises CyclicDependencyError
SortRaises(views) == DOMAIN SortResidual(InitialViewToDeps(views)) # {}

\* the lists _topological_sort_views(views) can return
SortResults(views) == Flattenings(SortBatches(InitialViewToDeps(views)))

----------------------------------------------------------------------------
(* Initial states *)

Aliases == {"default", "reporting"}

\* the namespace left by an earlier deployment: it holds a view that is no
\* longer registered, readable by the grantee of that time
StaleNamespace == [views |-> {0}, usage |-> TRUE, selects |-> {0}]

GraphInputs(n, maxEdges) ==
    {DepsFromEdges(n, E) : E \in SubsetsUpTo((1..n) \X (0..n), maxEdges)}

\* registry: database alias -> views, in insertion order, for n registered
\* views; every view is registered under exactly one database, and a database
\* is in the registry when it has a view
Registries(n) ==
    IF n = 0 THEN {<<>>}
    ELSE {<<[database |-> a, views |-> 1..n]>> : a \in Aliases}
         \cup {<<[database |-> a, views |-> 1..k], [database |-> b, views |-> (k + 1)..n]>> :
                 <<a, b, k>> \in {t \in Aliases \X Aliases \X (1..(n - 1)) : t[1] # t[2]}}

InitSyncVars ==
    /\ pc = "for"
    /\ idx = 1
    /\ views_to_generate = <<>>
    /\ i = 1
    /\ committed = [d \in Aliases |-> StaleNamespace]
    /\ work = StaleNamespace
    /\ in_atomic = FALSE
    /\ begun = <<>>
    /\ executed = <<>>
    /\ logged = <<>>
    /\ error = "none"
    /\ return_value = NoneValue

InitResolveVars(m) ==
    /\ view_to_deps = m
    /\ batches = <<>>
    /\ flat = <<>>
    /\ passes = 0
    /\ outcome = "running"
    /\ residual = <<>>

\* _topological_sort_views(views) called on the views of one database
InitResolve ==
    /\ \E n \in 0..NumViews :
         /\ registry = <<[database |-> "default", views |-> 1..n]>>
         /\ view_dependencies \in GraphInputs(n, MaxEdges)
         /\ hidden = [v \in 1..n |-> FALSE]
    /\ grantee = NoneValue
    /\ InitResolveVars(InitialViewToDeps(registry[1].views))
    /\ InitSyncVars

list_of_views == registry[1].views

NextResolve == IterateYield \/ BreakReturn \/ BreakRaise

SpecResolve == InitResolve /\ [][NextResolve]_vars


----------------------------------------------------------------------------
(* sync_views *)

\* transaction.atomic() is given no `using`: it opens its block on the
\* connection of Django's default alias, whichever database the cursor is on
AtomicAlias == "default"

Statement(db, kind, view) == [database |-> db, kind |-> kind, view |-> view]

\* what a statement does to the namespace it runs in
Apply(ns, stmt) ==
    CASE stmt.kind = "reset"        -> [views |-> {}, usage |-> FALSE, selects |-> {}]
      [] stmt.kind = "create"       -> [ns EXCEPT !.views = @ \cup {stmt.view}]
      [] stmt.kind = "grant_usage"  -> [ns EXCEPT !.usage = TRUE]
      [] stmt.kind = "grant_select" -> [ns EXCEPT !.selects = @ \cup {stmt.view}]

database == registry[idx].database
views == registry[idx].views

\* cursor.execute(...) succeeds: inside the atomic block when the cursor is on
\* the connection the block was opened on, otherwise in autocommit
Execute(stmt) ==
    /\ IF stmt.database = AtomicAlias
       THEN /\ work' = Apply(work, stmt)
            /\ UNCHANGED committed
       ELSE /\ committed' = [committed EXCEPT ![stmt.database] = Apply(@, stmt)]
            /\ UNCHANGED work
    /\ executed' = Append(executed, stmt)

\* variant: hidden views are not skipped
NextGrantAny(from) ==
    IF from <= Len(views_to_generate) THEN from ELSE 0

\* the second loop over views_to_generate: the index of the first view at or
\* after `from` that is not skipped by `if view.hidden ...: continue`, 0 if none
NextGrant(from) ==
    LET open == {k \in from..Len(views_to_generate) : ~hidden[views_to_generate[k]]}
    IN  IF open = {} THEN 0 ELSE CHOOSE k \in open : \A j \in open : k <= j

\* variant: the grants are issued whether or not a grantee was given
AfterCreatesAlwaysGrants == "grant_usage"

\* where sync_views goes once the creation loop is over
AfterCreates == IF grantee # NoneValue THEN "grant_usage" ELSE "commit"

\* variant: the namespace is reset before the views are sorted
SortFailsAfterReset ==
    /\ pc = "for"
    /\ idx <= Len(registry)
    /\ SortRaises(views)
    /\ committed' = [committed EXCEPT ![database] =
                        IF database = AtomicAlias THEN @
                        ELSE Apply(@, Statement(database, "reset", 0))]
    /\ begun' = Append(begun, database)
    /\ executed' = Append(executed, Statement(database, "reset", 0))
    /\ error' = "CyclicDependencyError"
    /\ pc' = "raised"
    /\ UNCHANGED <<idx, views_to_generate, i, work, in_atomic, logged, return_value>>
    /\ UNCHANGED inputVars
    /\ UNCHANGED resolveVars

\* for database, views in registry.items():
\*     views_to_generate = _topological_sort_views(views)   raises
SortFails ==
    /\ pc = "for"
    /\ idx <= Len(registry)
    /\ SortRaises(views)
    /\ error' = "CyclicDependencyError"
    /\ pc' = "raised"
    /\ UNCHANGED <<idx, views_to_generate, i, committed, work, in_atomic, begun,
                   executed, logged, return_value>>
    /\ UNCHANGED inputVars
    /\ UNCHANGED resolveVars

\* the sort returns; the cursor is opened and the atomic block entered
SortAndEnter ==
    /\ pc = "for"
    /\ idx <= Len(registry)
    /\ ~SortRaises(views)
    /\ views_to_generate' \in SortResults(views)
    /\ in_atomic' = TRUE
    /\ work' = committed[AtomicAlias]
    /\ begun' = Append(begun, database)
    /\ i' = 1
    /\ pc' = "reset"
    /\ UNCHANGED <<idx, committed, executed, logged, error, return_value>>
    /\ UNCHANGED inputVars
    /\ UNCHANGED resolveVars

\* cursor.execute('DROP SCHEMA IF EXISTS ... CASCADE; CREATE SCHEMA ...;')
ExecuteReset ==
    /\ pc = "reset"
    /\ Execute(Statement(database, "reset", 0))
    /\ pc' = IF Len(views_to_generate) > 0 THEN "create" ELSE AfterCreates
    /\ UNCHANGED <<idx, views_to_generate, i, in_atomic, begun, logged, error, return_value>>
    /\ UNCHANGED inputVars
    /\ UNCHANGED resolveVars

\* variant: the creation loop is left after its first statement
ExecuteCreateOnlyFirst ==
    /\ pc = "create"
    /\ Execute(Statement(database, "create", views_to_generate[i]))
    /\ i' = 1
    /\ pc' = AfterCreates
    /\ UNCHANGED <<idx, views_to_generate, in_atomic, begun, logged, error, return_value>>
    /\ UNCHANGED inputVars
    /\ UNCHANGED resolveVars

\* for view in views_to_generate: cursor.execute(view.creation_sql.sql, ...)
ExecuteCreate ==
    /\ pc = "create"
    /\ Execute(Statement(database, "create", views_to_generate[i]))
    /\ IF i < Len(views_to_generate)
       THEN i' = i + 1 /\ pc' = "create"
       ELSE i' = 1 /\ pc' = AfterCreates
    /\ UNCHANGED <<idx, views_to_generate, in_atomic, begun, logged, error, return_value>>
    /\ UNCHANGED inputVars
    /\ UNCHANGED resolveVars

\* cursor.execute('GRANT USAGE ON SCHEMA ... TO ...;')
ExecuteGrantUsage ==
    /\ pc = "grant_usage"
    /\ Execute(Statement(database, "grant_usage", 0))
    /\ IF NextGrant(1) = 0
       THEN i' = 1 /\ pc' = "commit"
       ELSE i' = NextGrant(1) /\ pc' = "grant_select"
    /\ UNCHANGED <<idx, views_to_generate, in_atomic, begun, logged, error, return_value>>
    /\ UNCHANGED inputVars
    /\ UNCHANGED resolveVars

\* cursor.execute('GRANT SELECT ON ....{view.name} TO ...;')
ExecuteGrantSelect ==
    /\ pc = "grant_select"
    /\ Execute(Statement(database, "grant_select", views_to_generate[i]))
    /\ IF NextGrant(i + 1) = 0
       THEN i' = 1 /\ pc' = "commit"
       ELSE i' = NextGrant(i + 1) /\ pc' = "grant_select"
    /\ UNCHANGED <<idx, views_to_generate, in_atomic, begun, logged, error, return_value>>
    /\ UNCHANGED inputVars
    /\ UNCHANGED resolveVars

\* the atomic block and the cursor are left without an exception:
\* LOG.info('Successfully sync\'d %s views for %s database', len(...), database)
Commit ==
    /\ pc = "commit"
    /\ committed' = [committed EXCEPT ![AtomicAlias] = work]
    /\ in_atomic' = FALSE
    /\ logged' = Append(logged, [database |-> database, count |-> Len(views_to_generate)])
    /\ idx' = idx + 1
    /\ pc' = "for"
    /\ UNCHANGED <<views_to_generate, i, work, begun, executed, error, return_value>>
    /\ UNCHANGED inputVars
    /\ UNCHANGED resolveVars

\* variant: a failed statement undoes the whole run
ExecuteRaisesUndoesRun ==
    /\ pc \in {"reset", "create", "grant_usage", "grant_select"}
    /\ in_atomic' = FALSE
    /\ work' = StaleNamespace
    /\ committed' = [d \in Aliases |-> StaleNamespace]
    /\ error' = "ExecutionError"
    /\ pc' = "raised"
    /\ UNCHANGED <<idx, views_to_generate, i, begun, executed, logged, return_value>>
    /\ UNCHANGED inputVars
    /\ UNCHANGED resolveVars

\* cursor.execute(...) raises: the exception leaves the atomic block, which
\* rolls back what was done inside it, and then leaves sync_views
ExecuteRaises ==
    /\ pc \in {"reset", "create", "grant_usage", "grant_select"}
    /\ in_atomic' = FALSE
    /\ work' = committed[AtomicAlias]
    /\ error' = "ExecutionError"
    /\ pc' = "raised"
    /\ UNCHANGED <<idx, views_to_generate, i, committed, begun, executed, logged,
                   return_value>>
    /\ UNCHANGED inputVars
    /\ UNCHANGED resolveVars

\* the registry is exhausted: LOG.info('Successfully sync\'d %s views', ...)
\* and the function ends without a return statement
Return ==
    /\ pc = "for"
    /\ idx > Len(registry)
    /\ return_value' = NoneValue
    /\ pc' = "done"
    /\ UNCHANGED <<idx, views_to_generate, i, committed, work, in_atomic, begun,
                   executed, logged, error>>
    /\ UNCHANGED inputVars
    /\ UNCHANGED resolveVars

\* sync_views(grant_select_permissions_to_user) on a built registry
Init ==
    /\ \E n \in 0..RegViews :
         /\ registry \in Registries(n)
         /\ view_dependencies \in GraphInputs(n, RegEdges)
         /\ hidden \in [1..n -> BOOLEAN]
    /\ grantee \in {NoneValue, <<"reader">>}
    /\ InitResolveVars(<<>>)
    /\ InitSyncVars

Next ==
    \/ SortFails
    \/ SortAndEnter
    \/ ExecuteReset
    \/ ExecuteCreate
    \/ ExecuteGrantUsage
    \/ ExecuteGrantSelect
    \/ Commit
    \/ ExecuteRaises
    \/ Return

Spec == Init /\ [][Next]_vars

----------------------------------------------------------------------------
(* The dependency graph of a list of views, by its edges alone *)

\* the identities one step of `view_dependencies` away from a set of identities
DepsOfSet(vs, S) == UNION {view_dependencies[v] : v \in S \cap vs}

RECURSIVE Closure(_, _)
Closure(vs, S) ==
    LET T == S \cup DepsOfSet(vs, S)
    IN  IF T = S THEN S ELSE Closure(vs, T)

\* every identity v depends on, directly or through other views of the list
Reaches(vs, v) == Closure(vs, view_dependencies[v])

OnCycle(vs, v) == v \in Reaches(vs, v)
CyclicCore(vs) == {v \in vs : OnCycle(vs, v)}
HasCycle(vs) == CyclicCore(vs) # {}
Dangling(vs, v) == ~(view_dependencies[v] \subseteq vs)
AllDepsInList(vs) == \A v \in vs : ~Dangling(vs, v)

\* v lies on a cycle or has a dependency outside the list, or depends,
\* directly or transitively, on such a view
Blocked(vs, v) ==
    \E u \in (Reaches(vs, v) \cup {v}) : u \notin vs \/ OnCycle(vs, u)

Finished == outcome # "running"

----------------------------------------------------------------------------
(* Claims about _topological_sort_views, under SpecResolve *)

\* C1: for an acyclic list whose dependencies are all in the list, the sort
\* returns a list that holds every view of the input exactly once, with every
\* dependency of a view strictly before the view.
C1_AcyclicSorted ==
    (Finished /\ ~HasCycle(list_of_views) /\ AllDepsInList(list_of_views)) =>
        /\ outcome = "returned"
        /\ Len(flat) = Cardinality(list_of_views)
        /\ Range(flat) = list_of_views
        /\ \A a, b \in 1..Len(flat) :
               flat[a] \in view_dependencies[flat[b]] => a < b

C1_Witness ==
    /\ outcome = "returned"
    /\ Cardinality(list_of_views) = 4
    /\ Len(batches) = 3
    /\ Cardinality(batches[1]) = 2
    /\ \E v \in list_of_views : Cardinality(view_dependencies[v]) = 2

\* C2 as stated: for a list with a dependency cycle the sort raises and the
\* keys of the reported map are exactly the views that lie on a cycle. (Stated
\* here for the lists whose dependencies are all in the list, where it already
\* fails.)
C2_ResidualIsCyclicCore ==
    (Finished /\ HasCycle(list_of_views) /\ AllDepsInList(list_of_views)) =>
        /\ outcome = "raised"
        /\ DOMAIN residual = CyclicCore(list_of_views)

\* C2 amended: for a list with a dependency cycle the sort raises, and the keys
\* of the reported map are every view on a cycle together with exactly the
\* views that depend, directly or transitively, on a view on a cycle or on an
\* identity outside the list.
C2_ResidualIsBlockedSet ==
    (Finished /\ HasCycle(list_of_views)) =>
        /\ outcome = "raised"
        /\ CyclicCore(list_of_views) \subseteq DOMAIN residual
        /\ DOMAIN residual = {v \in list_of_views : Blocked(list_of_views, v)}

C2_Witness ==
    /\ outcome = "raised"
    /\ Cardinality(CyclicCore(list_of_views)) = 2
    /\ \E v \in (DOMAIN residual) \ CyclicCore(list_of_views) : ~Dangling(list_of_views, v)
    /\ batches # <<>>

\* C8: a view with a dependency outside the list is never emitted; it stays in
\* the working map and the sort ends with CyclicDependencyError whose map has
\* the view as a key, also when the list has no cycle.
C8_DanglingNeverEmitted ==
    \A v \in list_of_views : Dangling(list_of_views, v) =>
        /\ v \notin Range(flat)
        /\ \A k \in 1..Len(batches) : v \notin batches[k]
        /\ v \in DOMAIN view_to_deps
        /\ view_to_deps[v] \ list_of_views = view_dependencies[v] \ list_of_views
        /\ Finished => (outcome = "raised" /\ v \in DOMAIN residual)

C8_Witness ==
    /\ outcome = "raised"
    /\ ~HasCycle(list_of_views)
    /\ batches # <<>>
    /\ \E v \in DOMAIN residual : Dangling(list_of_views, v)
    /\ \E v \in DOMAIN residual : ~Dangling(list_of_views, v)

\* C9 as stated: the sort ends within at most |views| iterations of its loop.
\* (Stated here for the non-empty lists, where it already fails.)
C9_AtMostLenIterations ==
    (Finished /\ list_of_views # {}) => passes <= Cardinality(list_of_views)

\* C9 amended: the sort ends after at most |views| iterations that emit a
\* batch, each of which removes at least one identity from the working map,
\* followed by exactly one more iteration that finds nothing to emit and leaves
\* the loop: at most |views| + 1 iterations, and at most |views| when it raises.
C9_IterationsBounded ==
    /\ Len(batches) <= Cardinality(list_of_views)
    /\ Cardinality(DOMAIN view_to_deps) + Len(batches) <= Cardinality(list_of_views)
    /\ ~Finished => (passes = Len(batches) /\ ENABLED NextResolve)
    /\ Finished => passes = Len(batches) + 1
    /\ passes <= Cardinality(list_of_views) + 1
    /\ outcome = "raised" => passes <= Cardinality(list_of_views)

C9_Witness ==
    /\ outcome = "returned"
    /\ Cardinality(list_of_views) = 4
    /\ passes = 5

\* c lists the views of a chain: each depends on the next one only, the last
\* on nothing
IsChain(vs, c) ==
    /\ \A k \in 1..Len(c) :
           view_dependencies[c[k]] = (IF k < Len(c) THEN {c[k + 1]} ELSE {})

\* the views met from v by following single dependencies inside the list, at
\* most k of them
RECURSIVE Walk(_, _, _)
Walk(vs, v, k) ==
    IF k = 0 \/ v \notin vs THEN <<>>
    ELSE IF Cardinality(view_dependencies[v]) # 1 THEN <<v>>
    ELSE <<v>> \o Walk(vs, CHOOSE d \in view_dependencies[v] : TRUE, k - 1)

\* the orders in which the whole list is one chain (none, or exactly one)
ChainsOf(vs) ==
    {c \in {Walk(vs, v, Cardinality(vs)) : v \in vs} :
        /\ Len(c) = Cardinality(vs)
        /\ Range(c) = vs
        /\ IsChain(vs, c)}

\* C10: a chain A -> B -> C -> D resolves to exactly [D, C, B, A]: a chain of n
\* views is emitted as n batches of one view each, the last of the chain first.
C10_ChainReversed ==
    \A c \in ChainsOf(list_of_views) :
        /\ \A k \in 1..Len(batches) : batches[k] = {c[Len(c) + 1 - k]}
        /\ Finished =>
              /\ outcome = "returned"
              /\ Len(batches) = Len(c)
              /\ flat = [k \in 1..Len(c) |-> c[Len(c) + 1 - k]]

C10_Witness ==
    /\ outcome = "returned"
    /\ view_dependencies = (1 :> {2} @@ 2 :> {3} @@ 3 :> {4} @@ 4 :> {})
    /\ flat = <<4, 3, 2, 1>>


----------------------------------------------------------------------------
(* Claims about sync_views, under Spec *)

DbAt(k) == registry[k].database
ViewsAt(k) == registry[k].views

\* the positions in `executed` of the statements of one kind on one database
StatementsOn(db, kind) ==
    {j \in 1..Len(executed) : executed[j].database = db /\ executed[j].kind = kind}

\* the namespace a complete rebuild of the k-th database leaves
Rebuilt(k) ==
    [views   |-> ViewsAt(k),
     usage   |-> grantee # NoneValue,
     selects |-> IF grantee # NoneValue THEN {v \in ViewsAt(k) : ~hidden[v]} ELSE {}]

InTransaction == pc \in {"reset", "create", "grant_usage", "grant_select", "commit"}

\* C3 as stated: when the sort of a database's views fails, the run has had no
\* side effect on any database: nothing was executed and no transaction begun.
C3_NoSideEffectInRun ==
    error = "CyclicDependencyError" =>
        /\ executed = <<>>
        /\ begun = <<>>
        /\ \A d \in Aliases : committed[d] = StaleNamespace

\* C3 amended: when the sort of a database's views fails, sync_views has had no
\* side effect on that database nor on any database after it in the registry:
\* no reset, no creation statement, no grant was executed on them and no
\* transaction was begun for them. The databases before it were already
\* rebuilt in the same run and stay rebuilt.
C3_NoSideEffectOnFailedDatabase ==
    error = "CyclicDependencyError" =>
        /\ ~in_atomic
        /\ \A k \in 1..(idx - 1) :
              /\ DbAt(k) \in Range(begun)
              /\ committed[DbAt(k)] = Rebuilt(k)
        /\ \A k \in idx..Len(registry) :
              /\ DbAt(k) \notin Range(begun)
              /\ \A j \in 1..Len(executed) : executed[j].database # DbAt(k)
              /\ committed[DbAt(k)] = StaleNamespace

C3_Witness ==
    /\ error = "CyclicDependencyError"
    /\ idx = 2
    /\ Len(executed) >= 2
    /\ committed[DbAt(1)] # StaleNamespace

\* C4: after a failure on one database, every database that follows it in the
\* registry is still rebuilt under a transaction of its own.
C4_RemainingDatabasesRebuilt ==
    pc = "raised" =>
        \A k \in (idx + 1)..Len(registry) :
            ~SortRaises(ViewsAt(k)) => DbAt(k) \in Range(begun)

\* C5: a database whose rebuild was completed keeps the rebuilt namespace for
\* the rest of the run, also after the rebuild of a later database has failed.
C5_CommittedDatabasesKept ==
    \A k \in 1..Len(logged) :
        /\ logged[k].database = DbAt(k)
        /\ committed[DbAt(k)] = Rebuilt(k)

C5_Witness ==
    /\ error = "ExecutionError"
    /\ Len(logged) = 1
    /\ ViewsAt(1) # {}
    /\ \E j \in 1..Len(executed) : executed[j].database = DbAt(2)

\* C6: the rebuild of one database is all or nothing: after a failed statement
\* the namespace of the database is what it was before the rebuild, and while
\* the rebuild is under way nothing of it is visible outside the transaction.
C6_AllOrNothing ==
    /\ error = "ExecutionError" => committed[database] = StaleNamespace
    /\ InTransaction => committed[database] = StaleNamespace

\* the grants of a completed rebuild of the k-th database: one usage grant and
\* one select grant for each view that is not hidden, none for a hidden one
GrantsIssued(k) ==
    /\ Cardinality(StatementsOn(DbAt(k), "grant_usage")) = 1
    /\ Cardinality(StatementsOn(DbAt(k), "grant_select")) =
           Cardinality(ViewsAt(k)) - Cardinality({v \in ViewsAt(k) : hidden[v]})
    /\ \A v \in ViewsAt(k) :
           Cardinality({j \in StatementsOn(DbAt(k), "grant_select") : executed[j].view = v})
               = (IF hidden[v] THEN 0 ELSE 1)

----------------------------------------------------------------------------
(* Further claims about _topological_sort_views, under SpecResolve *)

NoDependencies(vs) == \A v \in vs : view_dependencies[v] = {}

\* the identities emitted so far
Emitted == UNION Range(batches)

\* C11: a list of N views (N >= 1) without dependencies is emitted as exactly
\* one batch that holds all N views, in the first iteration; no second batch is
\* emitted and the sort returns without an error.
C11_SingleBatch ==
    (NoDependencies(list_of_views) /\ list_of_views # {}) =>
        /\ passes = 0 => batches = <<>>
        /\ passes >= 1 => (batches = <<list_of_views>> /\ DOMAIN view_to_deps = {})
        /\ Finished => (outcome = "returned" /\ Range(flat) = list_of_views)

C11_Witness ==
    /\ outcome = "returned"
    /\ NoDependencies(list_of_views)
    /\ Cardinality(list_of_views) = 4
    /\ batches = <<list_of_views>>

\* C14: the sort leaves its input unchanged: no step of it changes the list of
\* views or the dependency set of a view, while the working map shrinks.
C14_InputUnchanged ==
    [][/\ registry' = registry
       /\ view_dependencies' = view_dependencies
       /\ hidden' = hidden]_vars

C14_Witness ==
    /\ Finished
    /\ Len(batches) >= 2
    /\ DOMAIN view_to_deps # list_of_views
    /\ \E v \in DOMAIN view_to_deps : view_to_deps[v] # view_dependencies[v]

\* C15: when the sort raises, the reported map holds for each of its keys the
\* dependencies of the view that are still unsatisfied: a non-empty set, with
\* no identity that was emitted, equal to the declared dependencies minus the
\* emitted identities.
C15_ResidualValues ==
    outcome = "raised" =>
        \A v \in DOMAIN residual :
            /\ residual[v] # {}
            /\ residual[v] \cap Emitted = {}
            /\ residual[v] = view_dependencies[v] \ Emitted

C15_Witness ==
    /\ outcome = "raised"
    /\ Len(batches) >= 2
    /\ \E v \in DOMAIN residual : residual[v] # view_dependencies[v]


\* v is on a cycle or depends, directly or transitively, on a view on a cycle
ReachesCycle(vs, v) ==
    \E u \in (Reaches(vs, v) \cup {v}) \cap vs : OnCycle(vs, u)

Max(S) == CHOOSE x \in S : \A y \in S : y <= x

\* the number of edges of the longest dependency chain that starts at v and
\* stays inside the list (for a view that does not reach a cycle)
RECURSIVE ChainLength(_, _)
ChainLength(vs, v) ==
    LET inside == view_dependencies[v] \cap vs
    IN  IF inside = {} THEN 0
        ELSE 1 + Max({ChainLength(vs, d) : d \in inside})

\* the views whose longest chain inside the list has k - 1 edges
LayerInside(vs, k) ==
    {v \in vs : ~ReachesCycle(vs, v) /\ ChainLength(vs, v) = k - 1}

\* the same, without the views that depend, directly or transitively, on an
\* identity outside the list
Layer(vs, k) == {v \in LayerInside(vs, k) : ~Blocked(vs, v)}

\* C17 as stated: the k-th emitted batch is exactly the set of the views whose
\* longest dependency chain inside the list has k - 1 edges.
C17_BatchesAreLayersInside ==
    \A k \in 1..Len(batches) : batches[k] = LayerInside(list_of_views, k)

\* C17 amended: the k-th emitted batch is exactly the set of the views that do
\* not depend, directly or transitively, on an identity outside the list or on
\* a view on a cycle, and whose longest dependency chain has k - 1 edges; every
\* batch is non-empty, the batches are pairwise disjoint, and when the sort ends
\* every such layer was emitted: the batches are a function of the graph alone.
C17_BatchesAreLayers ==
    /\ \A k \in 1..Len(batches) :
          /\ batches[k] = Layer(list_of_views, k)
          /\ batches[k] # {}
          /\ \A j \in 1..(k - 1) : batches[j] \cap batches[k] = {}
    /\ Finished =>
          \A k \in (Len(batches) + 1)..Cardinality(list_of_views) :
              Layer(list_of_views, k) = {}

C17_Witness ==
    /\ Finished
    /\ Len(batches) = 2
    /\ Cardinality(batches[1]) = 2
    /\ \E v \in batches[2] : Cardinality(view_dependencies[v]) = 2
    /\ \E v \in list_of_views : Dangling(list_of_views, v)

\* C18: when the sort raises, the keys of the reported map are exactly the
\* views that lie on a cycle, depend on an identity outside the list, or depend
\* transitively on such a view; every other view of the list was emitted in a
\* batch before, and yet nothing of the list built so far reaches the caller.
C18_ResidualKeysAndNoPartialResult ==
    outcome = "raised" =>
        /\ DOMAIN residual = {v \in list_of_views : Blocked(list_of_views, v)}
        /\ Emitted = list_of_views \ DOMAIN residual
        /\ flat = <<>>

C18_Witness ==
    /\ outcome = "raised"
    /\ Emitted # {}
    /\ \E v \in DOMAIN residual : OnCycle(list_of_views, v)
    /\ \E v \in DOMAIN residual :
           ~OnCycle(list_of_views, v) /\ Dangling(list_of_views, v)
    /\ \E v \in DOMAIN residual :
           ~OnCycle(list_of_views, v) /\ ~Dangling(list_of_views, v)


----------------------------------------------------------------------------
(* Further claims about sync_views, under Spec *)

\* the positions in `executed` of the statements on one database
PositionsOn(db) == {j \in 1..Len(executed) : executed[j].database = db}

\* the views created on one database, in the order of their creation statements
CreatedOn(db) ==
    LET creates == SelectSeq(executed,
                             LAMBDA st : st.database = db /\ st.kind = "create")
    IN  [j \in 1..Len(creates) |-> creates[j].view]

\* the position in `executed` of the creation statement of view v on db, 0 if none
CreatedAt(db, v) ==
    LET at == {j \in StatementsOn(db, "create") : executed[j].view = v}
    IN  IF at = {} THEN 0 ELSE CHOOSE j \in at : TRUE

\* C12: on each database the namespace reset is executed before any creation
\* statement, the creation statements are executed once each in the resolved
\* order, and the creation statement of every dependency of a view is executed
\* strictly before the one of the view.
C12_ResetThenCreatesInOrder ==
    /\ \A k \in 1..Len(registry) :
          /\ Cardinality(StatementsOn(DbAt(k), "reset")) <= 1
          /\ \A j \in StatementsOn(DbAt(k), "create") :
                /\ \E r \in StatementsOn(DbAt(k), "reset") : r < j
                /\ \A j2 \in StatementsOn(DbAt(k), "create") :
                      executed[j2].view = executed[j].view => j2 = j
                /\ \A e \in view_dependencies[executed[j].view] :
                      CreatedAt(DbAt(k), e) # 0 /\ CreatedAt(DbAt(k), e) < j
    /\ (InTransaction \/ error = "ExecutionError") =>
          /\ Len(CreatedOn(database)) <= Len(views_to_generate)
          /\ CreatedOn(database) =
                 SubSeq(views_to_generate, 1, Len(CreatedOn(database)))
    /\ \A k \in 1..Len(logged) :
          /\ Len(CreatedOn(DbAt(k))) = Cardinality(ViewsAt(k))
          /\ Range(CreatedOn(DbAt(k))) = ViewsAt(k)

C12_Witness ==
    /\ pc = "done"
    /\ Len(registry) = 1
    /\ Cardinality(ViewsAt(1)) = 3
    /\ \E v \in ViewsAt(1) : Cardinality(view_dependencies[v]) = 2
    /\ Len(CreatedOn(DbAt(1))) = 3

\* C13: with a grantee, on each database no grant is issued before every
\* creation statement has been executed, the usage grant precedes every select
\* grant, and the select grants are issued in the relative order of the
\* creation statements of their views.
C13_GrantsAfterCreatesInOrder ==
    \A k \in 1..Len(registry) :
        /\ \A g \in StatementsOn(DbAt(k), "grant_usage") \cup StatementsOn(DbAt(k), "grant_select") :
              \A v \in ViewsAt(k) : CreatedAt(DbAt(k), v) # 0 /\ CreatedAt(DbAt(k), v) < g
        /\ \A g \in StatementsOn(DbAt(k), "grant_select") :
              \E u \in StatementsOn(DbAt(k), "grant_usage") : u < g
        /\ \A g1, g2 \in StatementsOn(DbAt(k), "grant_select") :
              g1 < g2 => CreatedAt(DbAt(k), executed[g1].view)
                             < CreatedAt(DbAt(k), executed[g2].view)

C13_Witness ==
    /\ pc = "done"
    /\ grantee # NoneValue
    /\ \E k \in 1..Len(registry) :
          /\ Cardinality(ViewsAt(k)) = 3
          /\ Cardinality(StatementsOn(DbAt(k), "grant_select")) = 2
          /\ \E v \in ViewsAt(k) : view_dependencies[v] # {}

\* C16: without a grantee no grant statement is executed, whatever the hidden
\* flags: the statements of the run are resets and creation statements only,
\* and no rebuilt namespace carries a grant.
C16_NoGranteeNoGrant ==
    grantee = NoneValue =>
        /\ pc \notin {"grant_usage", "grant_select"}
        /\ \A j \in 1..Len(executed) : executed[j].kind \in {"reset", "create"}
        /\ \A k \in 1..Len(logged) :
              ~committed[DbAt(k)].usage /\ committed[DbAt(k)].selects = {}

C16_Witness ==
    /\ pc = "done"
    /\ grantee = NoneValue
    /\ Len(logged) = 2
    /\ \E v \in ViewsAt(1) : ~hidden[v]
    /\ \E v \in ViewsAt(2) : hidden[v]
    /\ Len(executed) = 5

====
